---- MODULE Spec2Model ----
(***************************************************************************)
(* Model of the payflow-demo sweep engine: the one-time sweep              *)
(* (runSweepFunds), the scheduled sweep job (runScheduledSweep with its    *)
(* runSweep iteration body, its setInterval timer and its shutdown         *)
(* handler) and the per-wallet orchestrator sweepUSDC.                     *)
(*                                                                         *)
(* Execution model: Node.js, one thread.  A step of the model is one run   *)
(* of synchronous code between two suspension points (await): the         *)
(* continuation of an await, a timer callback or a signal handler.         *)
(*                                                                         *)
(* Units: token amounts are raw token units; native gas is counted in      *)
(* units of 0.0005 ETH, so the 0.001 ETH reserve is 2 units.               *)
(***************************************************************************)
EXTENDS Integers, Sequences, FiniteSets, TLC

VARIABLES
    command,         \* which CLI command runs: "scheduled", "once" or "direct"
    mainPc,          \* position of the command's own async function
    tasks,           \* task n: pass 0 is runSweepFunds / direct caller, n >= 1 is runSweep iteration #n
    calls,           \* the sweepUSDC invocations that have started and not yet returned
    bal,             \* chain: token balance of each address
    gas,             \* chain: native-gas balance of each address
    dir,             \* account directory: what listMerchants returns
    threshold,       \* SWEEP_THRESHOLD_USDC in raw units
    iterationCount,  \* closure variables of runScheduledSweep
    totalSwept,
    totalSuccessful,
    totalSkipped,
    intervalId,      \* "unset", "set" (setInterval live) or "cleared"
    handlers,        \* TRUE once process.on("SIGINT"/"SIGTERM", shutdown) ran
    exited,          \* "no", "shutdown" (summary printed, process.exit) or "killed"
    lastEvent,       \* kind of the last scheduler-level console event
    ticks,           \* number of timer callbacks that have fired
    treasury,        \* the treasury module's cached account and the command's `treasury`
    clock,           \* the time, and when the timer was installed and passes began and ended
    returns,         \* history: sweepUSDC calls of the scheduled job that have returned or thrown
    codec,           \* the policy condition: builder arguments, condition string, formatted entries
    send             \* runSendFunds: its position, its inputs and what it has read and done

vars == <<command, mainPc, tasks, calls, bal, gas, dir, threshold, iterationCount,
          totalSwept, totalSuccessful, totalSkipped, intervalId, handlers,
          exited, lastEvent, ticks, treasury, clock, returns, codec, send>>

stats == <<iterationCount, totalSwept, totalSuccessful, totalSkipped>>
chain == <<bal, gas>>

-----------------------------------------------------------------------------
(* Bounds *)
MaxIter == 3        \* iterations a scheduled job may start
MaxBal == 2         \* largest token balance of a wallet
MaxGas == 3         \* largest native-gas balance of a wallet
MaxCalls == 2       \* direct sweepUSDC calls on one wallet
MaxLookups == 2     \* getOrCreateTreasury calls in one process run
AddrLen == 2        \* hex digits of an address
MaxTokens == 5      \* symbols of a condition string as the backend returns it
MaxAccounts == 2    \* accounts of the treasury wallet as getWallet returns them
MaxAmount == 2      \* amounts and balances of the send command
MaxTime == 8        \* last instant of the clock
Interval == 2       \* intervalMs, in clock units

(* Program constants *)
MinGas == 2         \* ethers.parseEther("0.001"), in units of 0.0005 ETH

NA == "N/A"
Addresses == {"A", "B"}

ErrNoBalance == "No USDC balance to sweep"
ErrBelowThreshold == "Balance below threshold"
ErrInsufficientGas == "Insufficient ETH for gas fees"
ErrTransactionFailed == "Transaction failed"
ErrSigningRejected == "Signing rejected"
ErrSigningUnavailable == "Signing unavailable"
ErrConfirmationUnknown == "Confirmation unknown"
ErrAddressNotAvailable == "Address not available"
ErrThrown == "thrown"

SkipErrors == {ErrInsufficientGas, ErrNoBalance, ErrBelowThreshold}

-----------------------------------------------------------------------------
(* Account directory *)
Wallet(id, addr) == [walletId |-> id, address |-> addr]
Merchant(sub, ws) == [subOrganizationId |-> sub, wallets |-> ws]

TwoMerchants ==
    << Merchant("m1", <<Wallet("wA", "A")>>), Merchant("m2", <<Wallet("wB", "B")>>) >>

Directories ==
    { <<>>,
      TwoMerchants,
      << Merchant("m1", <<Wallet("wA", "A"), Wallet("wX", NA)>>),
         Merchant("m0", <<>>),
         Merchant("m2", <<Wallet("wB", "B")>>) >>,
      << Merchant("m1", <<Wallet("wX", NA), Wallet("wA", "A")>>) >> }

RECURSIVE Flatten(_)
\* the wallets in the order the nested for-loops visit them
Flatten(merchants) ==
    IF merchants = <<>> THEN <<>>
    ELSE Head(merchants).wallets \o Flatten(Tail(merchants))

-----------------------------------------------------------------------------
(* Tasks *)
IdleTask ==
    [pc |-> "none", list |-> <<>>, pos |-> 0,
     iterationSuccessful |-> 0, iterationSwept |-> 0,
     started |-> <<>>, results |-> <<>>, summaryNum |-> 0,
     listCalls |-> 0, listError |-> FALSE]

\* the pass reaches `await listMerchants()`
StartListing(t) == [t EXCEPT !.pc = "listing", !.listCalls = @ + 1]

\* (a pass that calls listMerchants again when it threw)
ListFailureRetry(t) == [t EXCEPT !.listCalls = @ + 1]
\* listMerchants threw: the catch block of the pass logs and the pass is over
ListFailure(t) == [t EXCEPT !.pc = "done", !.listError = TRUE]

\* receipt: what the confirmation wait observed, "" when it was not reached
Result(ok, err, amount, tx) ==
    [success |-> ok, error |-> err, amount |-> amount, transactionHash |-> tx,
     thrown |-> FALSE, receipt |-> ""]

Thrown ==
    [success |-> FALSE, error |-> ErrThrown, amount |-> 0, transactionHash |-> FALSE,
     thrown |-> TRUE, receipt |-> ""]

Iterations == 1..MaxIter
Tasks == 0..MaxIter
InFlight(n) == tasks[n].pc \in {"listing", "sweeping"}
Running == exited = "no"

-----------------------------------------------------------------------------
(* The caller's handling of one sweepUSDC outcome *)

\* sweepResult.error.includes("below threshold") / includes("No USDC")
IncludesBelowThreshold(err) == err \in {ErrBelowThreshold}
IncludesNoUSDC(err) == err \in {ErrNoBalance}

\* the console line runSweep prints for a wallet's outcome
IterationLine(res) ==
    IF res.thrown THEN "err"
    ELSE IF res.success THEN "ok"
    ELSE IF res.error # "" /\ ~IncludesBelowThreshold(res.error) /\ ~IncludesNoUSDC(res.error)
         THEN "warn"
         ELSE "none"

\* the console line runSweepFunds prints for a wallet's outcome
FundsLine(res) ==
    IF res.thrown THEN "err" ELSE IF res.success THEN "ok" ELSE "warn"

\* what the caller keeps or prints of one outcome: amount and transaction
\* hash are read in the success branch only; returned is the outcome as
\* sweepUSDC handed it over, phase the step in which the call returned
Entry(c, res, line) ==
    [address |-> c.address, success |-> res.success, error |-> res.error,
     amount |-> IF res.success THEN res.amount ELSE 0,
     transactionHash |-> res.success /\ res.transactionHash,
     line |-> line, preBal |-> c.preBal, preGas |-> c.preGas,
     returned |-> res, phase |-> IF res.thrown THEN "" ELSE c.phase]

\* runSweep: iterationSwept / iterationSuccessful and the log line of one outcome
IterationRecord(t, c, res) ==
    [t EXCEPT !.iterationSwept = IF res.success THEN @ + res.amount ELSE @,
              !.iterationSuccessful = IF res.success THEN @ + 1 ELSE @,
              !.results = Append(@, Entry(c, res, IterationLine(res)))]

\* runSweepFunds: results.push({...}) for one outcome
FundsRecord(t, c, res) ==
    [t EXCEPT !.results = Append(@, Entry(c, res, FundsLine(res)))]

\* runSweepFunds: the entry pushed for a wallet without address
AddressNotAvailableEntry ==
    [address |-> NA, success |-> FALSE, error |-> ErrAddressNotAvailable,
     amount |-> 0, transactionHash |-> FALSE, line |-> "warn", preBal |-> 0, preGas |-> 0,
     returned |-> Result(FALSE, ErrAddressNotAvailable, 0, FALSE), phase |-> ""]

\* (a one-time sweep that passes over the wallet without a word)
SkipUnavailableSilently(t) == t
\* the wallet at index p has address "N/A": runSweep continues silently,
\* runSweepFunds records a failed result
SkipUnavailable(t) ==
    IF command = "once"
    THEN [t EXCEPT !.results = Append(@, AddressNotAvailableEntry)]
    ELSE t

\* the loops are exhausted: the pass prints its summary and returns; the
\* locals of a finished runSweep (counters, outcomes) are gone with it
Finish(t) ==
    IF command = "scheduled"
    THEN [t EXCEPT !.pc = "done", !.pos = Len(t.list) + 1,
                   !.summaryNum = iterationCount,
                   !.iterationSuccessful = 0, !.iterationSwept = 0, !.results = <<>>]
    ELSE [t EXCEPT !.pc = "done", !.pos = Len(t.list) + 1]

\* the loop body reaches `await sweepUSDC(wallet.address, ...)` for index p
StartCall(t, p) ==
    [t EXCEPT !.pc = "sweeping", !.pos = p,
              !.started = Append(@, t.list[p].address)]

RECURSIVE Advance(_, _)
\* the nested for-loops from flattened index p on, up to the next await
Advance(t, p) ==
    IF p > Len(t.list) THEN Finish(t)
    ELSE IF t.list[p].address = NA THEN Advance(SkipUnavailable(t), p + 1)
    ELSE StartCall(t, p)

\* (a loop that gives up the pass when a call throws)
AfterOutcomeAbort(t, p, res) == IF res.thrown THEN Finish(t) ELSE Advance(t, p + 1)

\* what the caller does after the outcome of the call at index p was
\* recorded: the try/catch is inside the loop, so the loop goes on
AfterOutcome(t, p, res) == Advance(t, p + 1)

\* the balances at the time of a direct call, kept with its outcome
Snapshot(x) == IF command = "direct" THEN x ELSE 0

\* (a sweep that looks at the token balance first)
FirstCheckBalance == "bal"
\* the check a sweep starts with: the native gas balance
FirstCheck == "gas"

NewCall(n, p, a) ==
    [task |-> n, pos |-> p, address |-> a, destination |-> treasury.local,
     phase |-> FirstCheck, amt |-> 0,
     preBal |-> Snapshot(bal[a]), preGas |-> Snapshot(gas[a])]

\* (all remaining wallets swept at once, as with Promise.all)
NewCallsParallel(n, t2) ==
    IF t2.pc = "sweeping"
    THEN {NewCall(n, p, t2.list[p].address) :
            p \in {q \in t2.pos..Len(t2.list) : t2.list[q].address # NA}}
    ELSE {}

\* the sweepUSDC invocations the task starts when it reaches state t2:
\* one awaited call, for the wallet at t2.pos
NewCalls(n, t2) ==
    IF t2.pc = "sweeping" THEN {NewCall(n, t2.pos, t2.list[t2.pos].address)} ELSE {}

\* (counters that leave out a call that threw)
StatsOnOutcomeThrownUncounted(res) ==
    IF command # "scheduled" \/ res.thrown
    THEN UNCHANGED <<totalSwept, totalSuccessful, totalSkipped>>
    ELSE IF res.success
    THEN /\ totalSwept' = totalSwept + res.amount
         /\ totalSuccessful' = totalSuccessful + 1
         /\ UNCHANGED totalSkipped
    ELSE /\ totalSkipped' = totalSkipped + 1
         /\ UNCHANGED <<totalSwept, totalSuccessful>>
\* cumulative counters of the scheduled job, updated in the continuation
StatsOnOutcome(res) ==
    IF command # "scheduled" THEN UNCHANGED <<totalSwept, totalSuccessful, totalSkipped>>
    ELSE IF res.success
    THEN /\ totalSwept' = totalSwept + res.amount
         /\ totalSuccessful' = totalSuccessful + 1
         /\ UNCHANGED totalSkipped
    ELSE /\ totalSkipped' = totalSkipped + 1
         /\ UNCHANGED <<totalSwept, totalSuccessful>>

\* (a timer that counts from the start of the first pass)
InstalledAtStart(now, firstStart) == firstStart
\* setInterval is called when the awaited first runSweep() has returned:
\* the timer counts from that moment
InstalledAt(now, firstStart) == now

\* the clock's records when task n moves to t2
ClockAfter(n, t2) ==
    IF t2.pc # "done" THEN clock
    ELSE [clock EXCEPT !.finishedAt[n] = clock.now,
                       !.installedAt =
                           IF command = "scheduled" /\ mainPc = "first"
                           THEN InstalledAt(clock.now, clock.startedAt[1]) ELSE @]

\* task n moves to t2; when the pass is over its caller resumes in the same
\* turn: runScheduledSweep installs the timer and the signal handlers after
\* the first runSweep, runSweepFunds prints its summary and returns
Settle(n, t2, rest, ev) ==
    /\ tasks' = [tasks EXCEPT ![n] = t2]
    /\ clock' = ClockAfter(n, t2)
    /\ calls' = rest \cup NewCalls(n, t2)
    /\ IF t2.pc = "done"
       THEN /\ lastEvent' = ev
            /\ IF command = "scheduled" /\ mainPc = "first"
               THEN /\ mainPc' = "installed"
                    /\ intervalId' = "set"
                    /\ handlers' = TRUE
               ELSE IF command = "once"
               THEN /\ mainPc' = "returned"
                    /\ UNCHANGED <<intervalId, handlers>>
               ELSE UNCHANGED <<mainPc, intervalId, handlers>>
       ELSE UNCHANGED <<lastEvent, mainPc, intervalId, handlers>>

PassEvent(t2) ==
    IF command = "once" THEN "sweepSummary"
    ELSE IF t2.iterationSuccessful > 0 THEN "iterationSummary" ELSE "noFunds"

\* call c returns (or throws) res to its caller
Return(c, res) ==
    LET n == c.task
        t1 == IF command = "scheduled" THEN IterationRecord(tasks[n], c, res)
              ELSE FundsRecord(tasks[n], c, res)
        t2 == IF command = "direct" THEN [t1 EXCEPT !.pc = "idle"]
              ELSE AfterOutcome(t1, c.pos, res)
    IN /\ StatsOnOutcome(res)
       /\ returns' = IF command = "scheduled"
                     THEN [returned |-> returns.returned + 1,
                           succeeded |-> returns.succeeded + IF res.success THEN 1 ELSE 0]
                     ELSE returns
       /\ UNCHANGED iterationCount
       /\ Settle(n, t2, calls \ {c}, PassEvent(t2))

-----------------------------------------------------------------------------
(* sweepUSDC: Idle -> CheckGas -> CheckBalance -> Transfer -> Confirm *)

InsufficientGas(g) == g < MinGas
NoBalance(b) == b = 0
\* (a threshold that also rejects a balance equal to it)
BelowThresholdInclusive(b, k) == b <= k
BelowThreshold(b, k) == b < k
\* (a transfer that leaves one unit behind)
TransferAmountPartial(b) == IF b > 1 THEN b - 1 ELSE b
\* the transfer moves the whole balance that was read
TransferAmount(b) == b
\* receipt.status !== 1
ReceiptFailed(status) == status # 1

\* (a skip outcome that carries the balance it looked at)
SkipOutcomeWithAmount(err, b) == Result(FALSE, err, b, FALSE)
\* a skip outcome: { success: false, error }
SkipOutcome(err, b) == Result(FALSE, err, 0, FALSE)

\* (every confirmation that is not a success reported as a failed transaction)
ConfirmOutcomeConflated(receipt, amt) ==
    IF receipt = "status1"
    THEN [Result(TRUE, "", amt, TRUE) EXCEPT !.receipt = receipt]
    ELSE [Result(FALSE, ErrTransactionFailed, 0, FALSE) EXCEPT !.receipt = receipt]
\* the outcome after the confirmation wait: no receipt could be observed
\* (the wait threw), the receipt reports a failure, or the transfer succeeded
ConfirmOutcome(receipt, amt) ==
    IF receipt = "none"
    THEN [Result(FALSE, ErrConfirmationUnknown, amt, TRUE) EXCEPT !.receipt = receipt]
    ELSE IF ReceiptFailed(IF receipt = "status1" THEN 1 ELSE 0)
    THEN [Result(FALSE, ErrTransactionFailed, 0, FALSE) EXCEPT !.receipt = receipt]
    ELSE [Result(TRUE, "", amt, TRUE) EXCEPT !.receipt = receipt]

Charge(g, cost) == IF g >= cost THEN g - cost ELSE 0

\* step 1: the native-gas balance of the source arrives
CheckGas(c) ==
    /\ Running
    /\ c \in calls
    /\ c.phase = "gas"
    /\ IF InsufficientGas(gas[c.address])
       THEN Return(c, SkipOutcome(ErrInsufficientGas, 0))
       ELSE /\ calls' = (calls \ {c}) \cup {[c EXCEPT !.phase = "bal"]}
            /\ UNCHANGED <<tasks, stats, returns, mainPc, intervalId, handlers, lastEvent, clock>>
    /\ UNCHANGED <<command, codec, send, treasury, chain, dir, threshold, exited, ticks>>

\* step 2: the token balance of the source arrives
CheckBalance(c) ==
    /\ Running
    /\ c \in calls
    /\ c.phase = "bal"
    /\ LET b == bal[c.address] IN
       IF NoBalance(b)
       THEN Return(c, SkipOutcome(ErrNoBalance, b))
       ELSE IF BelowThreshold(b, threshold)
       THEN Return(c, SkipOutcome(ErrBelowThreshold, b))
       ELSE /\ calls' = (calls \ {c}) \cup
                        {[c EXCEPT !.phase = "sign", !.amt = TransferAmount(b)]}
            /\ UNCHANGED <<tasks, stats, returns, mainPc, intervalId, handlers, lastEvent, clock>>
    /\ UNCHANGED <<command, codec, send, treasury, chain, dir, threshold, exited, ticks>>

\* steps 3 and 4: the delegated signer answers the signAndSend request
SignAndSend(c) ==
    /\ Running
    /\ c \in calls
    /\ c.phase = "sign"
    /\ \E answer \in {"txId", "SigningRejected", "SigningUnavailable"} :
         IF answer = "txId"
         THEN /\ calls' = (calls \ {c}) \cup {[c EXCEPT !.phase = "confirm"]}
              /\ UNCHANGED <<tasks, stats, returns, mainPc, intervalId, handlers, lastEvent, clock>>
         ELSE Return(c, Result(FALSE,
                               IF answer = "SigningRejected" THEN ErrSigningRejected
                                                             ELSE ErrSigningUnavailable,
                               c.amt, FALSE))
    /\ UNCHANGED <<command, codec, send, treasury, chain, dir, threshold, exited, ticks>>

\* step 5: the wait for one confirmation ends.  The transaction is mined
\* with status 1 only if the source still holds the amount; a mined
\* transaction costs gas whatever its status; a wait that ends without a
\* receipt leaves open whether the transaction lands.
Confirm(c) ==
    /\ Running
    /\ c \in calls
    /\ c.phase = "confirm"
    /\ \E receipt \in {"status1", "status0", "none"}, landed \in BOOLEAN, cost \in 1..MinGas :
         LET a == c.address
             moves == bal[a] >= c.amt /\ (receipt = "status1" \/ (receipt = "none" /\ landed))
             mined == receipt # "none" \/ landed
         IN /\ receipt = "status1" => bal[a] >= c.amt
            /\ receipt # "none" => landed
            /\ bal' = IF moves THEN [bal EXCEPT ![a] = @ - c.amt] ELSE bal
            /\ gas' = IF mined THEN [gas EXCEPT ![a] = Charge(@, cost)] ELSE gas
            /\ Return(c, ConfirmOutcome(receipt, c.amt))
    /\ UNCHANGED <<command, codec, send, treasury, dir, threshold, exited, ticks>>

\* the awaited sweepUSDC promise rejects: the caller's catch block runs
CallThrows(c) ==
    /\ Running
    /\ c \in calls
    /\ command # "direct"
    /\ Return(c, Thrown)
    /\ UNCHANGED <<command, codec, send, treasury, chain, dir, threshold, exited, ticks>>

-----------------------------------------------------------------------------
(* runScheduledSweep and runSweepFunds *)

\* (a command that goes on without a token address)
AfterTokenNoReturn(found) == "treasury"
\* if (!usdcTokenAddress) { error(...); return; }
AfterToken(found) == IF found THEN "treasury" ELSE "configError"

\* (a command that goes on without a treasury)
AfterTreasuryNoReturn(ready) == IF command = "scheduled" THEN "prompt" ELSE "listing"
\* catch (err) { error(...); return; } around getOrCreateTreasury()
AfterTreasury(ready) ==
    IF ~ready THEN "configError"
    ELSE IF command = "scheduled" THEN "prompt" ELSE "listing"

\* (a treasury module that keeps no handle between calls)
GetOrCreateTreasuryUncached(tr) ==
    IF tr.configured
    THEN [tr EXCEPT !.cache = 0, !.lookups = @ + 1]
    ELSE [tr EXCEPT !.cache = tr.creations + 1, !.creations = @ + 1, !.lookups = @ + 1]
\* getOrCreateTreasury(): the cached account if there is one, else the
\* configured account (address 0), else a newly created one (address k for
\* the k-th creation), which is then cached
GetOrCreateTreasury(tr) ==
    IF tr.cache # -1 THEN [tr EXCEPT !.lookups = @ + 1]
    ELSE IF tr.configured
    THEN [tr EXCEPT !.cache = 0, !.lookups = @ + 1]
    ELSE [tr EXCEPT !.cache = tr.creations + 1, !.creations = @ + 1, !.lookups = @ + 1]

\* the token address is looked up; without one the command returns
ResolveToken ==
    /\ Running
    /\ mainPc = "start"
    /\ \E found \in BOOLEAN :
         /\ mainPc' = AfterToken(found)
         /\ lastEvent' = IF found THEN lastEvent ELSE "error"
    /\ UNCHANGED <<command, codec, send, treasury, clock, tasks, calls, chain, dir, threshold, stats, returns,
                   intervalId, handlers, exited, ticks>>

\* await getOrCreateTreasury() returns or throws
TreasuryReturn ==
    /\ Running
    /\ mainPc = "treasury"
    /\ \E ready \in BOOLEAN :
         LET next == AfterTreasury(ready)
             got == GetOrCreateTreasury(treasury)
         IN /\ mainPc' = next
            /\ lastEvent' = IF ready THEN lastEvent ELSE "error"
            /\ treasury' = IF ready THEN [got EXCEPT !.local = got.cache] ELSE treasury
            /\ tasks' = IF next = "listing"
                        THEN [tasks EXCEPT ![0] = StartListing(@)] ELSE tasks
    /\ UNCHANGED <<command, codec, send, clock, calls, chain, dir, threshold, stats, returns,
                   intervalId, handlers, exited, ticks>>

\* the interval prompts (choice, custom minutes) are answered or aborted
PromptInterval ==
    /\ Running
    /\ mainPc = "prompt"
    /\ \E chosen \in BOOLEAN : mainPc' = IF chosen THEN "confirm" ELSE "returned"
    /\ UNCHANGED <<command, codec, send, treasury, clock, tasks, calls, chain, dir, threshold, stats, returns,
                   intervalId, handlers, exited, lastEvent, ticks>>

\* runSweep up to its first await: iterationCount++, header, listMerchants()
BeginIteration ==
    /\ iterationCount' = iterationCount + 1
    /\ tasks' = [tasks EXCEPT ![iterationCount + 1] = StartListing(@)]
    /\ clock' = [clock EXCEPT !.startedAt[iterationCount + 1] = clock.now]
    /\ lastEvent' = "iterationHeader"
    /\ UNCHANGED <<totalSwept, totalSuccessful, totalSkipped, returns, calls>>

\* the start is confirmed: the first runSweep() is called and awaited
PromptConfirm ==
    /\ Running
    /\ mainPc = "confirm"
    /\ \E confirm \in BOOLEAN :
         IF confirm
         THEN /\ mainPc' = "first"
              /\ BeginIteration
         ELSE /\ mainPc' = "returned"
              /\ lastEvent' = "cancelled"
              /\ UNCHANGED <<tasks, calls, stats, returns, clock>>
    /\ UNCHANGED <<command, codec, send, treasury, chain, dir, threshold, intervalId, handlers, exited, ticks>>

\* the instant at which the timer's next callback is due
NextDue == clock.installedAt + (ticks + 1) * Interval

\* time passes, but not beyond the instant at which a callback is due
TimeAdvance ==
    /\ Running
    /\ clock.timed
    /\ clock.now < MaxTime
    /\ (intervalId = "set" /\ iterationCount < MaxIter) => clock.now < NextDue
    /\ clock' = [clock EXCEPT !.now = @ + 1]
    /\ UNCHANGED <<command, codec, send, treasury, mainPc, tasks, calls, chain, dir, threshold,
                   stats, returns, intervalId, handlers, exited, lastEvent, ticks>>

\* (a timer that is already running while the first pass is awaited)
TimerRunsFromStart == intervalId = "set" \/ mainPc = "first"
\* callbacks fire between setInterval and clearInterval
TimerRuns == intervalId = "set"

\* the setInterval callback fires: async () => { await runSweep(); }
Tick ==
    /\ Running
    /\ TimerRuns
    /\ iterationCount < MaxIter
    /\ clock.timed => clock.now = NextDue
    /\ BeginIteration
    /\ ticks' = ticks + 1
    /\ UNCHANGED <<command, codec, send, treasury, mainPc, chain, dir, threshold, intervalId, handlers, exited>>

\* (a job that lists the merchants once and reuses the listing)
ListedOnce(n) == IF n > 1 THEN tasks[1].list ELSE Flatten(dir)
\* const merchants = await listMerchants() inside the pass: the wallets of
\* the directory as it is when the call returns
Listed(n) == Flatten(dir)

\* await listMerchants() returns the directory or throws
ListReturn(n) ==
    /\ Running
    /\ tasks[n].pc = "listing"
    /\ \E listed \in BOOLEAN :
         LET failed == ListFailure(tasks[n])
             empty == [tasks[n] EXCEPT !.pc = "done"]
             t1 == [tasks[n] EXCEPT !.list = Listed(n)]
             t2 == Advance(t1, 1)
         IN IF ~listed
            THEN Settle(n, failed, calls, IF command = "once" THEN "error" ELSE "iterationError")
            ELSE IF Len(dir) = 0
            THEN Settle(n, empty, calls, "noMerchants")
            ELSE Settle(n, t2, calls, PassEvent(t2))
    /\ UNCHANGED <<command, codec, send, treasury, chain, dir, threshold, stats, returns, exited, ticks>>

\* SIGINT or SIGTERM arrives after the job was started.  With the handlers
\* registered shutdown() runs: clearInterval, cumulative summary,
\* process.exit(0).  Before that the default disposition ends the process.
Signal ==
    /\ Running
    /\ command = "scheduled"
    /\ mainPc \in {"first", "installed"}
    /\ IF handlers
       THEN /\ intervalId' = "cleared"
            /\ lastEvent' = "cumulativeSummary"
            /\ exited' = "shutdown"
       ELSE /\ exited' = "killed"
            /\ UNCHANGED <<intervalId, lastEvent>>
    /\ UNCHANGED <<command, codec, send, treasury, clock, mainPc, tasks, calls, chain, dir, threshold, stats, returns,
                   handlers, ticks>>

\* a caller invokes sweepUSDC on wallet A directly, one call after the other
DirectCall ==
    /\ Running
    /\ command = "direct"
    /\ tasks[0].pc = "idle"
    /\ Len(tasks[0].results) < MaxCalls
    /\ LET t2 == StartCall(tasks[0], 1) IN
         /\ tasks' = [tasks EXCEPT ![0] = t2]
         /\ calls' = calls \cup NewCalls(0, t2)
    /\ UNCHANGED <<command, codec, send, treasury, clock, mainPc, chain, dir, threshold, stats, returns,
                   intervalId, handlers, exited, lastEvent, ticks>>

-----------------------------------------------------------------------------
(* Specifications *)

\* no sweep call, no iteration, no timer yet
InitCounters ==
    /\ calls = {}
    /\ iterationCount = 0
    /\ totalSwept = 0
    /\ totalSuccessful = 0
    /\ totalSkipped = 0
    /\ intervalId = "unset"
    /\ handlers = FALSE
    /\ exited = "no"
    /\ lastEvent = "none"
    /\ ticks = 0
    /\ returns = [returned |-> 0, succeeded |-> 0]

\* viewPolicies and sendFunds are not running
NoCodec == [pc |-> "none"]
NoSend == [pc |-> "none"]

InitCommon ==
    /\ InitCounters
    /\ codec = NoCodec
    /\ send = NoSend

\* no account cached, none handed to the command yet
NoTreasury(configured) ==
    [configured |-> configured, cache |-> -1, creations |-> 0, lookups |-> 0,
     local |-> -1]

\* the clock at instant 0; an untimed clock stays there, and timer callbacks
\* may then fire at any moment
ClockAtStart(timed) ==
    [timed |-> timed, now |-> 0, installedAt |-> -1,
     startedAt |-> [n \in Iterations |-> -1],
     finishedAt |-> [n \in Tasks |-> -1]]

\* the CLI runs the scheduled job or the one-time sweep
Init ==
    /\ InitCommon
    /\ command \in {"scheduled", "once"}
    /\ mainPc = "start"
    /\ tasks = [n \in Tasks |-> IdleTask]
    /\ dir \in Directories
    /\ threshold = 1
    /\ bal \in [Addresses -> {0, 1}]
    /\ gas \in [Addresses -> {MinGas - 1, MinGas}]
    /\ treasury = NoTreasury(TRUE)
    /\ clock = ClockAtStart(FALSE)

Next ==
    \/ ResolveToken
    \/ TreasuryReturn
    \/ PromptInterval
    \/ PromptConfirm
    \/ Tick
    \/ \E n \in Tasks : ListReturn(n)
    \/ \E c \in calls : CheckGas(c)
    \/ \E c \in calls : CheckBalance(c)
    \/ \E c \in calls : SignAndSend(c)
    \/ \E c \in calls : Confirm(c)
    \/ \E c \in calls : CallThrows(c)
    \/ Signal

Spec == Init /\ [][Next]_vars

\* sweepUSDC on its own: two consecutive calls on one wallet, for every
\* balance, threshold and gas balance within the bounds
InitSweep ==
    /\ InitCommon
    /\ command = "direct"
    /\ mainPc = "direct"
    /\ tasks = [n \in Tasks |->
                  IF n = 0 THEN [IdleTask EXCEPT !.pc = "idle", !.list = <<Wallet("wA", "A")>>]
                  ELSE IdleTask]
    /\ dir = <<>>
    /\ threshold \in 0..MaxBal
    /\ bal \in [Addresses -> 0..MaxBal]
    /\ gas \in [Addresses -> 0..MaxGas]
    /\ treasury = [NoTreasury(TRUE) EXCEPT !.cache = 0, !.local = 0]
    /\ clock = ClockAtStart(FALSE)

NextSweep ==
    \/ DirectCall
    \/ \E c \in calls : CheckGas(c)
    \/ \E c \in calls : CheckBalance(c)
    \/ \E c \in calls : SignAndSend(c)
    \/ \E c \in calls : Confirm(c)

SpecSweep == InitSweep /\ [][NextSweep]_vars

\* the scheduled job over funded wallets, of which A can pay for one transfer
InitScheduled ==
    /\ InitCommon
    /\ command = "scheduled"
    /\ mainPc = "start"
    /\ tasks = [n \in Tasks |-> IdleTask]
    /\ threshold = 1
    /\ bal = [a \in Addresses |-> 1]
    /\ gas = [a \in Addresses |-> IF a = "A" THEN MinGas ELSE MinGas - 1]

\* either command over the same funded wallets
InitSetup ==
    /\ InitCommon
    /\ command \in {"scheduled", "once"}
    /\ mainPc = "start"
    /\ tasks = [n \in Tasks |-> IdleTask]
    /\ dir = TwoMerchants
    /\ threshold = 1
    /\ bal = [a \in Addresses |-> 1]
    /\ gas = [a \in Addresses |-> IF a = "A" THEN MinGas ELSE MinGas - 1]
    /\ treasury = NoTreasury(TRUE)
    /\ clock = ClockAtStart(FALSE)

SpecSetup == InitSetup /\ [][Next]_vars

\* either command over a directory in which a wallet has no address yet
InitUnavailable ==
    /\ InitCommon
    /\ command \in {"scheduled", "once"}
    /\ mainPc = "start"
    /\ tasks = [n \in Tasks |-> IdleTask]
    /\ dir \in {d \in Directories : \E i \in 1..Len(Flatten(d)) : Flatten(d)[i].address = NA}
    /\ threshold = 1
    /\ bal = [a \in Addresses |-> 1]
    /\ gas = [a \in Addresses |-> IF a = "A" THEN MinGas ELSE MinGas - 1]
    /\ treasury = NoTreasury(TRUE)
    /\ clock = ClockAtStart(FALSE)

SpecUnavailable == InitUnavailable /\ [][Next]_vars

\* The scheduler and its calls make progress: listings, balance reads and
\* signing requests are answered.  Nothing bounds the wait for a
\* confirmation: waitForTransaction(hash, 1) is called without a timeout, so
\* Confirm carries no fairness.
Progress ==
    /\ WF_vars(\E n \in Tasks : ListReturn(n))
    /\ WF_vars(\E c \in calls : CheckGas(c))
    /\ WF_vars(\E c \in calls : CheckBalance(c))
    /\ WF_vars(\E c \in calls : SignAndSend(c))

SpecLive == Init /\ [][Next]_vars /\ Progress

\* the states the organization goes through: a merchant is added, a wallet
\* is added while a merchant has none, a merchant is removed
DirectoryHistory ==
    << << Merchant("m1", <<Wallet("wX", NA), Wallet("wA", "A")>>) >>,
       TwoMerchants,
       << Merchant("m1", <<Wallet("wA", "A"), Wallet("wX", NA)>>),
          Merchant("m0", <<>>),
          Merchant("m2", <<Wallet("wB", "B")>>) >>,
       <<>> >>

\* merchants and wallets are added to or removed from the organization
DirectoryChange ==
    /\ Running
    /\ mainPc \in {"first", "installed"}
    /\ \E i \in 1..Len(DirectoryHistory) : \E j \in (i + 1)..Len(DirectoryHistory) :
         dir = DirectoryHistory[i] /\ dir' = DirectoryHistory[j]
    /\ UNCHANGED <<command, codec, send, treasury, clock, mainPc, tasks, calls, chain, threshold,
                   stats, returns, intervalId, handlers, exited, lastEvent, ticks>>

InitDir ==
    /\ InitScheduled
    /\ dir \in Directories
    /\ treasury = NoTreasury(TRUE)
    /\ clock = ClockAtStart(FALSE)

NextDir == Next \/ DirectoryChange

SpecDir == InitDir /\ [][NextDir]_vars

InitClock ==
    /\ InitScheduled
    /\ dir = TwoMerchants
    /\ treasury = NoTreasury(TRUE)
    /\ clock = ClockAtStart(TRUE)

NextClock == Next \/ TimeAdvance

SpecClock == InitClock /\ [][NextClock]_vars

\* another command of the same process run asks for the treasury
TreasuryLookup ==
    /\ Running
    /\ mainPc \in {"first", "installed"}
    /\ treasury.lookups < MaxLookups
    /\ treasury' = [GetOrCreateTreasury(treasury) EXCEPT !.local = treasury.local]
    /\ UNCHANGED <<command, codec, send, clock, mainPc, tasks, calls, chain, dir, threshold,
                   stats, returns, intervalId, handlers, exited, lastEvent, ticks>>

InitTreasury ==
    /\ InitScheduled
    /\ dir = TwoMerchants
    /\ treasury \in {NoTreasury(c) : c \in BOOLEAN}
    /\ clock = ClockAtStart(FALSE)

NextTreasury == Next \/ TreasuryLookup

SpecTreasury == InitTreasury /\ [][NextTreasury]_vars

\* no sweep command runs: the sweep engine's variables stay as they are
NoSweep ==
    /\ InitCounters
    /\ mainPc = "none"
    /\ tasks = [n \in Tasks |-> IdleTask]
    /\ dir = <<>>
    /\ threshold = 1
    /\ bal = [a \in Addresses |-> 0]
    /\ gas = [a \in Addresses |-> 0]
    /\ treasury = NoTreasury(TRUE)
    /\ clock = ClockAtStart(FALSE)

sweepVars == <<command, mainPc, tasks, calls, chain, dir, threshold, stats, returns,
               intervalId, handlers, exited, lastEvent, ticks, treasury, clock>>

-----------------------------------------------------------------------------
(* The policy condition: its builder and formatCondition.  A string is a   *)
(* sequence of symbols: the fixed substrings the code looks for, and       *)
(* single characters.  An address is "0x" and AddrLen hex digits, the      *)
(* calldata slot holds SlotLen digits.                                     *)

KeyTo == "eth.tx.to =="
KeySelector == "eth.tx.data[2..10] =="
KeyArgument == "eth.tx.data[10..74] =="
Space == " "
Quote == "'"
And == " && "
Prefix0x == "0x"
TransferSelector == "a9059cbb"

HexDigits == {"0", "a", "A"}
SlotLen == AddrLen + 2
ValidAddresses == {<<Prefix0x>> \o h : h \in [1..AddrLen -> HexDigits]}

\* String.prototype.toLowerCase
ToLowerCase(str) == [i \in 1..Len(str) |-> IF str[i] = "A" THEN "a" ELSE str[i]]

\* str.padStart(n, "0")
PadStart(str, n) ==
    IF Len(str) >= n THEN str ELSE [i \in 1..(n - Len(str)) |-> "0"] \o str

\* str.slice(-n)
SliceLast(str, n) ==
    IF Len(str) <= n THEN str ELSE SubSeq(str, Len(str) - n + 1, Len(str))

\* the destination without its 0x, lower-cased and left-padded to the slot
TreasuryAddressPadded(treasuryAddress) ==
    PadStart(ToLowerCase(Tail(treasuryAddress)), SlotLen)

RECURSIVE Join(_)
\* parts.join(" && ")
Join(parts) ==
    IF Len(parts) = 0 THEN <<>>
    ELSE IF Len(parts) = 1 THEN parts[1]
    ELSE parts[1] \o <<And>> \o Join(Tail(parts))

\* (the selector clause emitted last)
ConditionPartsSelectorLast(usdcTokenAddress, treasuryAddress) ==
    << <<KeyTo, Space, Quote>> \o ToLowerCase(usdcTokenAddress) \o <<Quote>>,
       <<KeyArgument, Space, Quote>> \o TreasuryAddressPadded(treasuryAddress) \o <<Quote>>,
       <<KeySelector, Space, Quote, TransferSelector, Quote>> >>
\* the three template strings of the condition array
ConditionParts(usdcTokenAddress, treasuryAddress) ==
    << <<KeyTo, Space, Quote>> \o ToLowerCase(usdcTokenAddress) \o <<Quote>>,
       <<KeySelector, Space, Quote, TransferSelector, Quote>>,
       <<KeyArgument, Space, Quote>> \o TreasuryAddressPadded(treasuryAddress) \o <<Quote>> >>

\* const condition = [ ... ].join(" && ")
Condition(usdcTokenAddress, treasuryAddress) ==
    Join(ConditionParts(usdcTokenAddress, treasuryAddress))

RECURSIVE Split(_)
\* condition.split(" && ")
Split(str) ==
    LET ands == {i \in 1..Len(str) : str[i] = And} IN
    IF ands = {} THEN <<str>>
    ELSE LET i == CHOOSE k \in ands : \A m \in ands : k <= m
         IN <<SubSeq(str, 1, i - 1)>> \o Split(SubSeq(str, i + 1, Len(str)))

RECURSIVE Trim(_)
\* part.trim()
Trim(str) ==
    IF Len(str) = 0 THEN str
    ELSE IF str[1] = Space THEN Trim(Tail(str))
    ELSE IF str[Len(str)] = Space THEN Trim(SubSeq(str, 1, Len(str) - 1))
    ELSE str

\* part.includes(key)
Includes(part, key) == \E i \in 1..Len(part) : part[i] = key

\* the capture of /key '([^']+)'/ when the match starts at i, <<>> when it
\* does not match there
MatchAt(part, key, i) ==
    IF i + 3 <= Len(part) /\ part[i] = key /\ part[i + 1] = Space /\ part[i + 2] = Quote
    THEN LET quotes == {q \in (i + 3)..Len(part) : part[q] = Quote} IN
         IF quotes = {} THEN <<>>
         ELSE LET q == CHOOSE k \in quotes : \A m \in quotes : k <= m
              IN SubSeq(part, i + 3, q - 1)
    ELSE <<>>

\* part.match(/key '([^']+)'/): match[1] of the leftmost match, <<>> for null
Match(part, key) ==
    LET hits == {i \in 1..Len(part) : MatchAt(part, key, i) # <<>>} IN
    IF hits = {} THEN <<>>
    ELSE MatchAt(part, key, CHOOSE k \in hits : \A m \in hits : k <= m)

Line(idx, kind, text) == [idx |-> idx, kind |-> kind, text |-> text]

\* (a formatter that drops what it does not recognise)
GenericLinesDropped(idx, part) == <<>>
\* formatted.push(`   ${idx + 1}. ${part}`)
GenericLines(idx, part) == <<Line(idx, "generic", part)>>

\* the three lines pushed for a recognised clause; the third line stands for
\* the value it displays (address, selector or actualAddress)
KnownLines(idx, heading, key, value, shown) ==
    << Line(idx, heading, <<>>),
       Line(idx, "clause", <<key, Space, Quote>> \o value \o <<Quote>>),
       Line(idx, "note", shown) >>

\* (a destination read one digit short)
ActualAddressShort(paddedAddress) == <<Prefix0x>> \o SliceLast(paddedAddress, AddrLen - 1)
\* const actualAddress = "0x" + paddedAddress.slice(-40)
ActualAddress(paddedAddress) == <<Prefix0x>> \o SliceLast(paddedAddress, AddrLen)

\* the body of parts.forEach for the clause at index idx (from 1)
FormatPart(part, idx) ==
    IF Includes(part, KeyTo)
    THEN LET m == Match(part, KeyTo) IN
         IF m # <<>> THEN KnownLines(idx, "Transaction Destination", KeyTo, m, m)
         ELSE GenericLines(idx, part)
    ELSE IF Includes(part, KeySelector)
    THEN LET m == Match(part, KeySelector) IN
         IF m # <<>> THEN KnownLines(idx, "Function Selector", KeySelector, m, m)
         ELSE GenericLines(idx, part)
    ELSE IF Includes(part, KeyArgument)
    THEN LET m == Match(part, KeyArgument) IN
         IF m # <<>>
         THEN KnownLines(idx, "Transfer Destination", KeyArgument, m, ActualAddress(m))
         ELSE GenericLines(idx, part)
    ELSE GenericLines(idx, part)

RECURSIVE FormatParts(_, _)
FormatParts(parts, idx) ==
    IF idx > Len(parts) THEN <<>>
    ELSE FormatPart(Trim(parts[idx]), idx) \o FormatParts(parts, idx + 1)

\* formatCondition(condition)
FormatCondition(condition) ==
    IF condition = <<>> THEN <<>> ELSE FormatParts(Split(condition), 1)

\* the policy is created with the condition built from the two addresses
BuildCondition ==
    /\ codec.pc = "build"
    /\ codec' = [codec EXCEPT !.pc = "stored",
                              !.condition = Condition(codec.usdcTokenAddress,
                                                      codec.treasuryAddress)]
    /\ UNCHANGED <<sweepVars, send>>

\* runViewPolicies formats the condition of a policy it has fetched
ViewCondition ==
    /\ codec.pc = "stored"
    /\ codec' = [codec EXCEPT !.pc = "formatted",
                              !.formatted = FormatCondition(codec.condition)]
    /\ UNCHANGED <<sweepVars, send>>

Symbols == {KeyTo, KeySelector, KeyArgument, Space, Quote, And, "a"}
Strings == UNION {[1..n -> Symbols] : n \in 0..MaxTokens}

\* a condition of the builder with one more clause appended
Variants ==
    {Condition(t, d) \o <<And>> \o extra :
        t \in ValidAddresses, d \in ValidAddresses,
        extra \in UNION {[1..n -> Symbols] : n \in 0..2}}

\* either a policy is about to be created for two valid addresses, or a
\* policy with some condition string comes back from the backend
InitCodec ==
    /\ NoSweep
    /\ command = "viewPolicies"
    /\ send = NoSend
    /\ \/ \E t \in ValidAddresses, d \in ValidAddresses :
            codec = [pc |-> "build", usdcTokenAddress |-> t, treasuryAddress |-> d,
                     condition |-> <<>>, formatted |-> <<>>]
       \/ \E str \in Strings \cup Variants :
            codec = [pc |-> "stored", usdcTokenAddress |-> <<>>, treasuryAddress |-> <<>>,
                     condition |-> str, formatted |-> <<>>]

NextCodec == BuildCondition \/ ViewCondition

SpecCodec == InitCodec /\ [][NextCodec]_vars

-----------------------------------------------------------------------------
(* runSendFunds: one step per await, from the amount prompt on *)

Ethereum == "ADDRESS_FORMAT_ETHEREUM"
Solana == "ADDRESS_FORMAT_SOLANA"
TreasuryAddress == "0xT"
MinGasRequired == 1     \* parseEther("0.001")

\* a field that is missing is the empty string (falsy)
Accounts ==
    [addressFormat : {Ethereum, Solana}, privateKeyId : {"", "pk-1"},
     address : {"", "0xA1"}]
NoAccount == [addressFormat |-> "", privateKeyId |-> "", address |-> ""]
WalletDatas ==
    [accounts : UNION {[1..n -> Accounts] : n \in 0..MaxAccounts},
     addresses : {<<>>, <<"0xL1">>}]

\* walletData.accounts.find(acc => acc.addressFormat === "ADDRESS_FORMAT_ETHEREUM")
EthAccount(accounts) ==
    LET found == {i \in 1..Len(accounts) : accounts[i].addressFormat = Ethereum} IN
    IF found = {} THEN NoAccount
    ELSE accounts[CHOOSE i \in found : \A j \in found : i <= j]

\* (the address preferred to the key id)
SignWithAddressFirst(walletData, senderAddress) ==
    IF Len(walletData.accounts) > 0
    THEN LET ethAccount == EthAccount(walletData.accounts) IN
         IF ethAccount.address # "" THEN ethAccount.address
         ELSE IF ethAccount.privateKeyId # "" THEN ethAccount.privateKeyId
         ELSE senderAddress
    ELSE IF Len(walletData.addresses) > 0 THEN walletData.addresses[1]
    ELSE senderAddress
\* let signWith = senderAddress; ... the identifier handed to getTurnkeySigner
SignWith(walletData, senderAddress) ==
    IF Len(walletData.accounts) > 0
    THEN LET ethAccount == EthAccount(walletData.accounts) IN
         IF ethAccount.privateKeyId # "" THEN ethAccount.privateKeyId
         ELSE IF ethAccount.address # "" THEN ethAccount.address
         ELSE senderAddress
    ELSE IF Len(walletData.addresses) > 0 THEN walletData.addresses[1]
    ELSE senderAddress

\* the ETH branch of the balance check: "" when it lets the command go on
EthGate(ethBalance, amount) ==
    IF ethBalance < amount THEN "Insufficient ETH balance" ELSE ""

\* (a USDC branch that does not look at the gas)
UsdcGateNoGas(usdcBalance, ethBalance, amount) ==
    IF usdcBalance < amount THEN "Insufficient USDC balance" ELSE ""
\* the USDC branch of the balance check
UsdcGate(usdcBalance, ethBalance, amount) ==
    IF usdcBalance < amount THEN "Insufficient USDC balance"
    ELSE IF ethBalance < MinGasRequired THEN "Insufficient ETH for gas fees"
    ELSE ""

SendReturn(message) == [send EXCEPT !.pc = "returned", !.message = message]

\* the prompts for merchant, wallet, token and amount: any of them may be
\* left without an answer, and then the command returns
ChooseTransfer ==
    /\ send.pc = "prompts"
    /\ \/ send' = SendReturn("")
       \/ \E tok \in {"ETH", "USDC"}, amt \in 1..MaxAmount :
             send' = [send EXCEPT !.pc = "senderType", !.tokenType = tok, !.amount = amt]
    /\ UNCHANGED <<sweepVars, codec>>

\* the senderType prompt and the synchronous code after it
ChooseSender ==
    /\ send.pc = "senderType"
    /\ \/ send' = SendReturn("")
       \/ send' = IF ~send.walletId
                  THEN [SendReturn("Treasury wallet is not managed by Turnkey")
                            EXCEPT !.senderType = "treasury"]
                  ELSE [send EXCEPT !.pc = "getWallet", !.senderType = "treasury",
                                    !.senderAddress = TreasuryAddress]
       \/ send' = [send EXCEPT !.pc = "privateKey", !.senderType = "private-key"]
    /\ UNCHANGED <<sweepVars, codec>>

\* getWallet returns (or throws) and the signer is set up
GetWallet ==
    /\ send.pc = "getWallet"
    /\ \/ send' = SendReturn("Failed to setup treasury signer")
       \/ \E walletData \in WalletDatas :
             send' = [send EXCEPT !.pc = "getBalance", !.walletData = walletData,
                                  !.signWith = SignWith(walletData, send.senderAddress)]
    /\ UNCHANGED <<sweepVars, codec>>

\* the private key prompt: no answer, a key ethers rejects, or a wallet
EnterPrivateKey ==
    /\ send.pc = "privateKey"
    /\ \/ send' = SendReturn("")
       \/ send' = SendReturn("Invalid private key")
       \/ send' = [send EXCEPT !.pc = "getBalance", !.senderAddress = "0xP",
                                !.signWith = "0xP"]
    /\ UNCHANGED <<sweepVars, codec>>

\* provider.getBalance(senderAddress) returns (or throws)
GetBalance ==
    /\ send.pc = "getBalance"
    /\ \/ send' = SendReturn("Failed to check balance")
       \/ \E ethBalance \in 0..MaxAmount :
             LET s1 == [send EXCEPT !.ethBalance = ethBalance] IN
             send' = IF send.tokenType = "ETH"
                     THEN IF EthGate(ethBalance, send.amount) # ""
                          THEN [s1 EXCEPT !.pc = "returned",
                                          !.message = EthGate(ethBalance, send.amount)]
                          ELSE [s1 EXCEPT !.pc = "confirm"]
                     ELSE [s1 EXCEPT !.pc = "balanceOf"]
    /\ UNCHANGED <<sweepVars, codec>>

\* usdcContract.balanceOf(senderAddress) returns (or throws)
BalanceOf ==
    /\ send.pc = "balanceOf"
    /\ \/ send' = SendReturn("Failed to check balance")
       \/ \E usdcBalance \in 0..MaxAmount :
             LET s1 == [send EXCEPT !.usdcBalance = usdcBalance]
                 gate == UsdcGate(usdcBalance, send.ethBalance, send.amount) IN
             send' = IF gate # "" THEN [s1 EXCEPT !.pc = "returned", !.message = gate]
                     ELSE [s1 EXCEPT !.pc = "confirm"]
    /\ UNCHANGED <<sweepVars, codec>>

\* the confirm prompt (initial: false)
ConfirmSend ==
    /\ send.pc = "confirm"
    /\ \/ send' = SendReturn("Transaction cancelled")
       \/ send' = [send EXCEPT !.pc = "sending", !.confirm = TRUE]
    /\ UNCHANGED <<sweepVars, codec>>

\* senderWallet.sendTransaction / usdcContract.transfer returns (or throws)
SendTransaction ==
    /\ send.pc = "sending"
    /\ \/ send' = SendReturn("Failed to send transaction")
       \/ send' = [send EXCEPT !.pc = "waiting", !.txHash = TRUE]
    /\ UNCHANGED <<sweepVars, codec>>

\* provider.waitForTransaction(txHash, 1) returns (or throws)
WaitForTransaction ==
    /\ send.pc = "waiting"
    /\ \E message \in {"Successfully sent", "Transaction failed",
                         "Could not wait for confirmation"} :
          send' = SendReturn(message)
    /\ UNCHANGED <<sweepVars, codec>>

\* the command is started with a treasury that is or is not managed by Turnkey
InitSend ==
    /\ NoSweep
    /\ command = "sendFunds"
    /\ codec = NoCodec
    /\ \E walletId \in BOOLEAN :
          send = [pc |-> "prompts", tokenType |-> "", amount |-> 0, senderType |-> "",
                  walletId |-> walletId, senderAddress |-> "",
                  walletData |-> [accounts |-> <<>>, addresses |-> <<>>],
                  signWith |-> "", ethBalance |-> 0, usdcBalance |-> 0,
                  confirm |-> FALSE, txHash |-> FALSE, message |-> ""]

NextSend ==
    \/ ChooseTransfer
    \/ ChooseSender
    \/ GetWallet
    \/ EnterPrivateKey
    \/ GetBalance
    \/ BalanceOf
    \/ ConfirmSend
    \/ SendTransaction
    \/ WaitForTransaction

SpecSend == InitSend /\ [][NextSend]_vars

-----------------------------------------------------------------------------
(* Properties *)

AddressesOf(list) == [i \in 1..Len(list) |-> list[i].address]
IsAvailable(a) == a # NA
Sweepable(list) == SelectSeq(AddressesOf(list), IsAvailable)
CallsOf(n) == {c \in calls : c.task = n}

\* C1: in the scheduled job at most one invocation of runSweep is in flight
\* in every reachable state, however long an iteration takes.
C1_SingleFlight ==
    Cardinality({n \in Iterations : InFlight(n)}) <= 1

\* C2: no two sweepUSDC calls for the same wallet address have both started
\* and not yet returned.
C2_NoConcurrentSameWallet ==
    \A c1 \in calls : \A c2 \in calls : c1.address = c2.address => c1 = c2

\* C3: a stop signal is served gracefully: the cumulative summary is never
\* printed, and shutdown never ends the process, while an iteration is still
\* in flight.
C3_GracefulStop ==
    (exited = "shutdown" \/ lastEvent = "cumulativeSummary") =>
        \A n \in Iterations : ~InFlight(n)

\* C4: a stop request never ends the process while a sweep has broadcast its
\* transaction and not yet returned its outcome to the scheduler's counters.
C4_BroadcastRecorded ==
    exited = "shutdown" => \A c \in calls : c.phase # "confirm"

\* C5: a timer tick that fires while an iteration is in flight starts no
\* iteration and emits an "iteration skipped" event.
C5_SkippedTick ==
    [][(ticks' = ticks + 1 /\ \E n \in Iterations : InFlight(n)) =>
          (iterationCount' = iterationCount /\ lastEvent' = "iterationSkipped")]_vars

\* C6 (as stated): a finished pass has attempted a sweep for every wallet of
\* the listing exactly once.
C6_EveryWalletOnce ==
    \A n \in Tasks :
        tasks[n].pc = "done" => tasks[n].started = AddressesOf(tasks[n].list)

\* C6 (amended): a pass attempts, in listing order and exactly once each, the
\* wallets whose address is available: at every moment the calls it has
\* started are the available wallets up to its position, whatever the
\* outcomes so far (failed or thrown), and a finished pass has covered them all.
C6_EveryAvailableWalletOnce ==
    \A n \in Tasks :
        /\ tasks[n].pc = "sweeping" =>
              tasks[n].started = Sweepable(SubSeq(tasks[n].list, 1, tasks[n].pos))
        /\ tasks[n].pc = "done" => tasks[n].started = Sweepable(tasks[n].list)

\* a pass goes on to its second wallet after the first wallet's call threw
C6_Witness ==
    \E n \in Tasks :
        /\ tasks[n].pc = "sweeping"
        /\ Len(tasks[n].started) = 2
        /\ Len(tasks[n].results) >= 1
        /\ tasks[n].results[Len(tasks[n].results)].error = ErrThrown

\* C7: within one pass the wallets are swept one after the other: a pass has
\* at most one sweepUSDC call in flight, and it is the call for the wallet
\* the pass is waiting on.
C7_SequentialWithinPass ==
    /\ \A n \in Tasks : Cardinality(CallsOf(n)) <= 1
    /\ \A c \in calls : tasks[c.task].pc = "sweeping" /\ tasks[c.task].pos = c.pos

\* a pass is sweeping its second wallet after the first one returned
C7_Witness ==
    \E c \in calls :
        /\ Len(tasks[c.task].started) = 2
        /\ Len(tasks[c.task].results) >= 1
        /\ tasks[c.task].results[Len(tasks[c.task].results)].success

\* C8: the statistics of a scheduler run are written by one logical task at
\* a time (no iteration writes them while another iteration is in flight),
\* and the totals change only in a step in which a sweepUSDC call returns.
C8_ExclusiveStats ==
    [][stats' # stats =>
          /\ Cardinality({n \in Iterations : InFlight(n) \/ InFlight(n)'}) <= 1
          /\ <<totalSwept, totalSuccessful, totalSkipped>>' #
                 <<totalSwept, totalSuccessful, totalSkipped>> =>
                 \E c \in calls : c \notin calls']_vars

IsSkip(r) == r.error \in SkipErrors
DirectResults == tasks[0].results

FailureErrors ==
    {ErrSigningRejected, ErrSigningUnavailable, ErrTransactionFailed,
     ErrConfirmationUnknown}

IsSuccessOutcome(r) == r.success /\ r.error = ""
IsSkipOutcome(r) == ~r.success /\ r.error \in SkipErrors
IsFailureOutcome(r) == ~r.success /\ r.error \in FailureErrors

C12_BroadcastIdReported ==
    \A n \in Tasks : \A i \in 1..Len(tasks[n].results) :
        LET e == tasks[n].results[i] IN
        (e.phase = "confirm" /\ e.error \in {ErrTransactionFailed, ErrConfirmationUnknown})
            => e.returned.transactionHash /\ e.transactionHash

\* C13: the wait for a confirmation is bounded, so every iteration that
\* has started completes as long as the process runs, even when a
\* transaction is never confirmed.
C13_IterationsComplete ==
    \A n \in Iterations :
        (InFlight(n) /\ Running) ~> (~InFlight(n) \/ ~Running)

HasStarted(n) == clock.startedAt[n] # -1
HasFinished(n) == clock.finishedAt[n] # -1

C17_ListingFailureEndsPass ==
    /\ [](\A n \in Iterations :
            /\ tasks[n].listCalls <= 1
            /\ tasks[n].listError =>
                  /\ tasks[n].pc = "done"
                  /\ tasks[n].started = <<>>
                  /\ CallsOf(n) = {})
    /\ [][\A n \in Iterations :
            (tasks'[n].listError /\ ~tasks[n].listError) =>
                exited' = "no" /\ intervalId' = "set" /\ mainPc' = "installed"]_vars
    /\ [][iterationCount' = iterationCount + 1 =>
            /\ tasks'[iterationCount'].pc = "listing"
            /\ tasks'[iterationCount'].listCalls = 1]_vars

\* the first iteration failed to list, the second one listed and swept
C17_Witness ==
    /\ tasks[1].listError
    /\ tasks[2].pc = "done"
    /\ ~tasks[2].listError
    /\ tasks[2].started # <<>>

\* C18: a scheduled iteration prints no warning and no error line for a
\* wallet whose outcome is InsufficientGas, NoBalance or BelowThreshold.
C18_SkipsNotLogged ==
    \A n \in Iterations : \A i \in 1..Len(tasks[n].results) :
        IsSkip(tasks[n].results[i]) => tasks[n].results[i].line = "none"

\* C19: a command whose token address or treasury cannot be resolved
\* returns at once: it starts no pass and no sweep, installs neither the
\* timer nor the signal handlers, and does nothing afterwards.
C19_SetupFailureIsFatal ==
    /\ [](mainPc = "configError" =>
            /\ calls = {}
            /\ iterationCount = 0
            /\ intervalId = "unset"
            /\ ~handlers
            /\ \A n \in Tasks : tasks[n].pc = "none" /\ tasks[n].started = <<>>)
    /\ [][(mainPc \in {"start", "treasury"} /\ lastEvent' = "error")
            => mainPc' = "configError"]_vars
    /\ [][mainPc # "configError"]_vars

\* the token address or the treasury could not be resolved and the command
\* has returned
C19_Witness ==
    /\ mainPc = "configError"
    /\ lastEvent = "error"
    /\ treasury.lookups = 0
    /\ iterationCount = 0

\* C20: with no treasury configured at startup exactly one account is
\* created; every later lookup of the process run returns that account
\* without creating another, and every sweep of the job is sent to it.
C20_OneTreasury ==
    /\ [](~treasury.configured =>
            treasury.creations = IF treasury.cache = -1 THEN 0 ELSE 1)
    /\ [](\A c \in calls : c.destination # -1 /\ c.destination = treasury.cache)
    /\ [][treasury.cache # -1 =>
            /\ treasury'.cache = treasury.cache
            /\ treasury'.creations = treasury.creations]_vars

\* after a second lookup the second iteration sweeps to the one account
\* that was created
C20_Witness ==
    /\ ~treasury.configured
    /\ treasury.lookups >= 2
    /\ treasury.creations = 1
    /\ \E c \in calls : c.task = 2 /\ c.destination = 1

-----------------------------------------------------------------------------
(* The policy condition *)

\* the values a formatted condition displays under a heading
Shown(formatted, heading) ==
    {formatted[i + 2].text : i \in {k \in 1..(Len(formatted) - 2) : formatted[k].kind = heading}}

\* a condition built from two addresses has been formatted
RoundTripDone == codec.pc = "formatted" /\ codec.usdcTokenAddress # <<>>

Unrecognised(part) ==
    \A key \in {KeyTo, KeySelector, KeyArgument} : Match(part, key) = <<>>

LinesOf(formatted, idx) == SelectSeq(formatted, LAMBDA line : line.idx = idx)

\* C22: formatting any condition string yields a list of lines; every clause
\* of the string has at least one line, and a clause that matches no known
\* shape has exactly one generic line carrying the clause itself
C22_EveryClauseShown ==
    codec.pc = "formatted" =>
        LET parts == Split(codec.condition) IN
        IF codec.condition = <<>> THEN codec.formatted = <<>>
        ELSE /\ \A k \in 1..Len(codec.formatted) : codec.formatted[k].idx \in 1..Len(parts)
             /\ \A i \in 1..Len(parts) :
                    /\ LinesOf(codec.formatted, i) # <<>>
                    /\ Unrecognised(Trim(parts[i])) =>
                           LinesOf(codec.formatted, i) = <<Line(i, "generic", Trim(parts[i]))>>

\* a condition the builder does not produce: a fourth clause that names a key
\* without the quoted value, after three recognised ones
C22_Witness ==
    /\ codec.pc = "formatted"
    /\ codec.usdcTokenAddress = <<>>
    /\ Len(Split(codec.condition)) = 4
    /\ Includes(Split(codec.condition)[4], KeyTo)
    /\ Len(codec.formatted) = 10
    /\ codec.formatted[10].kind = "generic"

\* the argument slot: SlotLen digits, zeros and then the address without 0x
IsPadded(slot, address) ==
    /\ Len(slot) = SlotLen
    /\ SliceLast(slot, AddrLen) = Tail(address)
    /\ \A i \in 1..(SlotLen - AddrLen) : slot[i] = "0"

-----------------------------------------------------------------------------
(* Order of the checks of a sweep *)

-----------------------------------------------------------------------------
(* runSendFunds *)

\* the treasury signer was set up from a wallet that has an Ethereum account
SignerResolved ==
    /\ send.senderType = "treasury"
    /\ send.signWith # ""
    /\ \E i \in 1..Len(send.walletData.accounts) :
          send.walletData.accounts[i].addressFormat = Ethereum

\* C25: the signing identifier is the linked key id of the wallet's Ethereum
\* account when it has one, otherwise the account's address; the address is
\* never the identifier of an account that has a key id
C25_KeyIdBeforeAddress ==
    SignerResolved =>
        LET ethAccount == EthAccount(send.walletData.accounts) IN
        /\ ethAccount.privateKeyId # "" => send.signWith = ethAccount.privateKeyId
        /\ (ethAccount.privateKeyId = "" /\ ethAccount.address # "")
               => send.signWith = ethAccount.address
        /\ send.signWith \in {ethAccount.privateKeyId, ethAccount.address, TreasuryAddress}

\* an account with a key id and an address signed a transaction with the key id
C25_Witness ==
    /\ SignerResolved
    /\ EthAccount(send.walletData.accounts).privateKeyId # ""
    /\ EthAccount(send.walletData.accounts).address # ""
    /\ send.signWith = EthAccount(send.walletData.accounts).privateKeyId
    /\ send.txHash

GateMessages ==
    {"Treasury wallet is not managed by Turnkey", "Failed to setup treasury signer",
     "Invalid private key", "Failed to check balance", "Insufficient ETH balance",
     "Insufficient USDC balance", "Insufficient ETH for gas fees", "Transaction cancelled"}

\* C30: a transaction was sent only when every gate before it passed: the
\* ETH balance covers the amount of an ETH send; the USDC balance covers the
\* amount and the ETH balance the gas estimate of a USDC send; a treasury
\* sender is managed by Turnkey; the user confirmed.  A command that
\* returned at a gate sent nothing.
C30_NoSendPastFailedGate ==
    /\ (send.pc \in {"sending", "waiting"} \/ send.txHash) =>
          /\ send.tokenType = "ETH" => send.ethBalance >= send.amount
          /\ send.tokenType = "USDC" =>
                 send.usdcBalance >= send.amount /\ send.ethBalance >= MinGasRequired
          /\ send.senderType = "treasury" => send.walletId
          /\ send.senderType \in {"treasury", "private-key"}
          /\ send.confirm
    /\ (send.pc = "returned" /\ send.message \in GateMessages \cup {""}) => ~send.txHash

\* a USDC send from the treasury went out with the balance exactly at the
\* amount and the gas exactly at the estimate
C30_Witness ==
    /\ send.txHash
    /\ send.tokenType = "USDC"
    /\ send.senderType = "treasury"
    /\ send.usdcBalance = send.amount
    /\ send.ethBalance = MinGasRequired

-----------------------------------------------------------------------------
(* The scheduled job: summary line, counters, unavailable wallets, timer *)

\* C26: the iteration number in the summary line of an iteration is the
\* number in that iteration's header
C26_SummaryNumberIsHeaderNumber ==
    \A n \in Iterations :
        (tasks[n].pc = "done" /\ tasks[n].summaryNum # 0) => tasks[n].summaryNum = n

\* C27: in the scheduled job totalSuccessful + totalSkipped is the number of
\* sweepUSDC calls that have returned or thrown, totalSuccessful is the
\* number of those that succeeded, and neither counter ever decreases
C27_CountersCountCalls ==
    /\ [](command = "scheduled" =>
            /\ totalSuccessful + totalSkipped = returns.returned
            /\ totalSuccessful = returns.succeeded)
    /\ [][totalSuccessful' >= totalSuccessful /\ totalSkipped' >= totalSkipped]_vars

\* the job has counted a success and more than one skip
C27_Witness ==
    /\ command = "scheduled"
    /\ totalSuccessful = 1
    /\ totalSkipped >= 2
    /\ returns.returned = totalSkipped + 1

RECURSIVE StartedUpTo(_)
\* the number of sweepUSDC calls the iterations 1..n have started
StartedUpTo(n) == IF n = 0 THEN 0 ELSE Len(tasks[n].started) + StartedUpTo(n - 1)

\* the wallets without address the one-time sweep has passed
UnavailablePassed ==
    {p \in 1..Len(tasks[0].list) : p < tasks[0].pos /\ tasks[0].list[p].address = NA}

\* C28: a wallet whose address is "N/A" is never handed to sweepUSDC; the
\* one-time sweep records one failed result 'Address not available' for it,
\* the scheduled sweep passes it without a result and without a change to
\* its cumulative counters, which count started calls only
C28_UnavailableNeverSwept ==
    /\ \A c \in calls : c.address # NA
    /\ \A n \in Tasks : \A i \in 1..Len(tasks[n].started) : tasks[n].started[i] # NA
    /\ command = "once" =>
          /\ Len(SelectSeq(tasks[0].results, LAMBDA r : r.address = NA))
                 = Cardinality(UnavailablePassed)
          /\ \A i \in 1..Len(tasks[0].results) :
                 tasks[0].results[i].address = NA =>
                     /\ ~tasks[0].results[i].success
                     /\ tasks[0].results[i].error = ErrAddressNotAvailable
    /\ command = "scheduled" =>
          /\ \A n \in Iterations : \A i \in 1..Len(tasks[n].results) :
                 tasks[n].results[i].address # NA
          /\ totalSuccessful + totalSkipped + Cardinality(calls) = StartedUpTo(MaxIter)

\* the one-time sweep is over: it recorded the wallet without address and
\* swept the other one
C28_Witness ==
    /\ command = "once"
    /\ tasks[0].pc = "done"
    /\ \E i, j \in 1..Len(tasks[0].results) :
          /\ tasks[0].results[i].error = ErrAddressNotAvailable
          /\ tasks[0].results[j].success

====
